---- MODULE Spec2Model ----
(***************************************************************************)
(* A model of lib/mongo-object.js (class MongoObject).                     *)
(*                                                                         *)
(* JavaScript strings are sequences of one-character strings, so that the  *)
(* position codec (split on "[", strip "]", the makeKeyGeneric regular     *)
(* expression, parseInt) is computed character by character.               *)
(*                                                                         *)
(* JavaScript values are records:                                          *)
(*   [k |-> "leaf", ty |-> typeof-like tag, s |-> printed value]           *)
(*   [k |-> "obj",  f |-> <<  <<key, value>>, ... >>]   own properties in  *)
(*                                                      enumeration order  *)
(*   [k |-> "arr",  e |-> <<value, ...>>, p |-> named (non-index) props]   *)
(* A hole of a sparse array is the leaf undefined (lodash's each and       *)
(* without read holes as undefined).  The root document is a plain object. *)
(***************************************************************************)
EXTENDS Integers, Sequences, FiniteSets, TLC

VARIABLES
  obj,                    \* this._obj
  blackboxKeys,           \* this._blackboxKeys
  affectedKeys,           \* this._affectedKeys: ordered <<position, key>>
  genericAffectedKeys,    \* this._genericAffectedKeys: ordered <<position, generic key>>
  parentPositions,        \* this._parentPositions
  positionsInsideArrays,  \* this._positionsInsideArrays
  objectPositions,        \* this._objectPositions
  arrayItemPositions,     \* this._arrayItemPositions
  steps,                  \* number of calls made on the instance so far
  last,                   \* the last call: its name, arguments and the state before it
  iter,                   \* forEachNode in progress: position in the loop, updatedValues
  input,                  \* argument of a static function
  result                  \* value a static function returned

vars == <<obj, blackboxKeys, affectedKeys, genericAffectedKeys, parentPositions,
          positionsInsideArrays, objectPositions, arrayItemPositions,
          steps, last, iter, input, result>>

instanceVars == <<obj, blackboxKeys, affectedKeys, genericAffectedKeys, parentPositions,
                  positionsInsideArrays, objectPositions, arrayItemPositions>>

-----------------------------------------------------------------------------
(* Strings *)

Digits == {"0", "1", "2", "3", "4", "5", "6", "7", "8", "9"}

DigitValue(c) ==
  CASE c = "0" -> 0 [] c = "1" -> 1 [] c = "2" -> 2 [] c = "3" -> 3 [] c = "4" -> 4
    [] c = "5" -> 5 [] c = "6" -> 6 [] c = "7" -> 7 [] c = "8" -> 8 [] c = "9" -> 9

DigitChar(n) ==
  CASE n = 0 -> "0" [] n = 1 -> "1" [] n = 2 -> "2" [] n = 3 -> "3" [] n = 4 -> "4"
    [] n = 5 -> "5" [] n = 6 -> "6" [] n = 7 -> "7" [] n = 8 -> "8" [] n = 9 -> "9"

\* String(n) for a natural number n
RECURSIVE NumStr(_)
NumStr(n) == IF n < 10 THEN <<DigitChar(n)>> ELSE NumStr(n \div 10) \o <<DigitChar(n % 10)>>

\* Number(s) for a string of decimal digits
RECURSIVE ToNat(_)
ToNat(s) == IF Len(s) = 0 THEN 0
            ELSE 10 * ToNat(SubSeq(s, 1, Len(s) - 1)) + DigitValue(s[Len(s)])

AllDigits(s) == Len(s) > 0 /\ \A i \in 1..Len(s) : s[i] \in Digits

\* A property name that is an array index (an "integer-like" key): the canonical
\* decimal form of a natural number.
IsArrayIndex(s) == AllDigits(s) /\ (Len(s) = 1 \/ s[1] # "0")

\* The values undefined and null where the code holds them in a string variable
\* (currentPosition, affectedKey, operator).
undefinedS == <<"undefined">>
nullS == <<"null">>

\* JavaScript truthiness of such a variable: undefined, null and "" are falsy.
Truthy(s) == s # undefinedS /\ s # nullS /\ s # <<>>

\* `${s}`: the string a template literal makes of it
Tpl(s) == IF s = undefinedS THEN <<"u", "n", "d", "e", "f", "i", "n", "e", "d">>
          ELSE IF s = nullS THEN <<"n", "u", "l", "l">>
          ELSE s

\* s.split(sep) for a one-character separator out of seps (a character class)
RECURSIVE SplitFrom(_, _, _, _)
SplitFrom(s, seps, i, cur) ==
  IF i > Len(s) THEN <<cur>>
  ELSE IF s[i] \in seps THEN <<cur>> \o SplitFrom(s, seps, i + 1, <<>>)
  ELSE SplitFrom(s, seps, i + 1, Append(cur, s[i]))

Split(s, seps) == SplitFrom(s, seps, 1, <<>>)

\* isNaN(parseInt(s, 10)): parseInt reads an optional sign and then the leading
\* digits; it is NaN when there is no leading digit.  (Leading white space, which
\* parseInt skips, is not among the modelled characters.)
ParseIntIsNaN(s) ==
  LET body == IF Len(s) > 0 /\ s[1] \in {"+", "-"} THEN Tail(s) ELSE s
  IN  Len(body) = 0 \/ body[1] \notin Digits

\* Literal strings of the source
OpPush == <<"$", "p", "u", "s", "h">>
OpAddToSet == <<"$", "a", "d", "d", "T", "o", "S", "e", "t">>
OpPop == <<"$", "p", "o", "p">>
OpPull == <<"$", "p", "u", "l", "l">>
OpSet == <<"$", "s", "e", "t">>
KeyEach == <<"$", "e", "a", "c", "h">>
KeySlice == <<"$", "s", "l", "i", "c", "e">>

-----------------------------------------------------------------------------
(* Values *)

Leaf(ty, s) == [k |-> "leaf", ty |-> ty, s |-> s]
Obj(f) == [k |-> "obj", f |-> f]
Arr(e) == [k |-> "arr", e |-> e, p |-> <<>>]

undefined == Leaf("undefined", "undefined")
null == Leaf("null", "null")
EmptyString == Leaf("string", "")
REMOVED_MARKER == Leaf("string", "______MONGO_OBJECT_REMOVED______")
Num1 == Leaf("number", "1")
Num2 == Leaf("number", "2")
Num3 == Leaf("number", "3")
DateValue == Leaf("date", "Date")   \* an object that is not a plain object

IsArray(v) == v.k = "arr"

\* MongoObject.isBasicObject
isBasicObject(v) == v.k = "obj"

\* _.isObject (expandObj): objects, arrays and other non-primitive values
IsObjectLodash(v) == v.k \in {"obj", "arr"} \/ (v.k = "leaf" /\ v.ty = "date")

(* Own properties of an object, as an ordered sequence of <<name, value>> *)
HasKey(f, name) == \E i \in 1..Len(f) : f[i][1] = name

Lookup(f, name) ==
  IF HasKey(f, name) THEN f[CHOOSE i \in 1..Len(f) : f[i][1] = name][2] ELSE undefined

\* f[name] = v: an existing property keeps its place; a new integer-like name goes
\* among the integer-like names in ascending order, which come first; any other
\* new name goes last.
Put(f, name, v) ==
  IF HasKey(f, name)
  THEN [i \in 1..Len(f) |-> IF f[i][1] = name THEN <<name, v>> ELSE f[i]]
  ELSE IF IsArrayIndex(name)
  THEN LET n == Cardinality({i \in 1..Len(f) :
                               IsArrayIndex(f[i][1]) /\ ToNat(f[i][1]) < ToNat(name)})
       IN  SubSeq(f, 1, n) \o << <<name, v>> >> \o SubSeq(f, n + 1, Len(f))
  ELSE Append(f, <<name, v>>)

\* delete f[name]
Delete(f, name) == SelectSeq(f, LAMBDA pr : pr[1] # name)

\* container[subkey] for a plain object or an array
PropGet(c, subkey) ==
  IF c.k = "obj" THEN Lookup(c.f, subkey)
  ELSE IF c.k = "arr"
  THEN IF IsArrayIndex(subkey)
       THEN IF ToNat(subkey) < Len(c.e) THEN c.e[ToNat(subkey) + 1] ELSE undefined
       ELSE Lookup(c.p, subkey)
  ELSE undefined

\* container[subkey] = v; an index past the end of an array leaves holes
PropSet(c, subkey, v) ==
  IF c.k = "obj" THEN Obj(Put(c.f, subkey, v))
  ELSE IF IsArrayIndex(subkey)
  THEN LET n == ToNat(subkey)
           m == IF n < Len(c.e) THEN Len(c.e) ELSE n + 1
       IN  [c EXCEPT !.e = [i \in 1..m |-> IF i = n + 1 THEN v
                                           ELSE IF i <= Len(c.e) THEN c.e[i]
                                           ELSE undefined]]
  ELSE [c EXCEPT !.p = Put(c.p, subkey, v)]

\* delete with a slip: the property stays
PropDelete_Keeps(c, subkey) == c

\* delete container[subkey], for a plain object
PropDelete(c, subkey) == Obj(Delete(c.f, subkey))

\* _.isEmpty of a plain object or an array
IsEmpty(v) == IF v.k = "obj" THEN Len(v.f) = 0
              ELSE IF v.k = "arr" THEN Len(v.e) = 0
              ELSE TRUE

-----------------------------------------------------------------------------
(* Static helpers *)

\* typeof key === 'string' for the values a key variable can hold
numberS == <<"number">>
IsStringS(s) == s # undefinedS /\ s # nullS /\ s # numberS

\* The last index of the longest run of digits of s that starts at i (i - 1 when
\* s[i] is no digit): what [0-9]+ consumes.
RECURSIVE DigitRunEnd(_, _)
DigitRunEnd(s, i) ==
  IF i <= Len(s) /\ s[i] \in Digits THEN DigitRunEnd(s, i + 1) ELSE i - 1

\* key.replace(/\.[0-9]+(?=\.|$)/g, '.$') from index i on: a match is a dot, one
\* or more digits, and then (not consumed) a dot or the end of the string.
RECURSIVE ReplaceNumericFrom(_, _)
ReplaceNumericFrom(s, i) ==
  IF i > Len(s) THEN <<>>
  ELSE IF s[i] = "."
  THEN LET j == DigitRunEnd(s, i + 1)
       IN  IF j > i /\ (j = Len(s) \/ s[j + 1] = ".")
           THEN <<".", "$">> \o ReplaceNumericFrom(s, j + 1)
           ELSE <<".">> \o ReplaceNumericFrom(s, i + 1)
  ELSE <<s[i]>> \o ReplaceNumericFrom(s, i + 1)

makeKeyGeneric(key) ==
  IF ~IsStringS(key) THEN nullS ELSE ReplaceNumericFrom(key, 1)

appendAffectedKey(affectedKey, key) ==
  IF key = KeyEach THEN affectedKey
  ELSE IF Truthy(affectedKey) THEN Tpl(affectedKey) \o <<".">> \o key
  ELSE key

\* position.indexOf('['), counted from 1; 0 when there is none
IndexOfBracket(position) ==
  IF \E i \in 1..Len(position) : position[i] = "["
  THEN CHOOSE i \in 1..Len(position) :
         position[i] = "[" /\ \A j \in 1..(i - 1) : position[j] # "["
  ELSE 0

\* extractOp with a slip: the first piece is cut one character further on and
\* keeps its bracket
extractOp_KeepsBracket(position) ==
  LET at == IndexOfBracket(position)
      firstPositionPiece == SubSeq(position, 1, at)
  IN  IF Len(firstPositionPiece) > 0 /\ firstPositionPiece[1] = "$"
      THEN firstPositionPiece ELSE nullS

\* position.slice(0, position.indexOf('[')): slice(0, -1) when there is no bracket
extractOp(position) ==
  LET at == IndexOfBracket(position)
      firstPositionPiece == IF at = 0 THEN SubSeq(position, 1, Len(position) - 1)
                            ELSE SubSeq(position, 1, at - 1)
  IN  IF Len(firstPositionPiece) > 0 /\ firstPositionPiece[1] = "$"
      THEN firstPositionPiece ELSE nullS

-----------------------------------------------------------------------------
(* The index and its rebuild *)

EmptyIndex ==
  [affectedKeys |-> <<>>, genericAffectedKeys |-> <<>>, parentPositions |-> <<>>,
   positionsInsideArrays |-> <<>>, objectPositions |-> <<>>, arrayItemPositions |-> <<>>]

InSeq(x, s) == \E i \in 1..Len(s) : s[i] = x

Bracket(currentPosition, piece) == Tpl(currentPosition) \o <<"[">> \o piece \o <<"]">>

\* parseObj(_this, val, currentPosition, affectedKey, operator, adjusted, isWithinArray):
\* the index after the call (idx is the index before it) and val as the call leaves
\* it (undefined properties deleted in place).
RECURSIVE parseObj(_, _, _, _, _, _, _, _)
RECURSIVE parseItems(_, _, _, _, _, _, _, _)
RECURSIVE parseProps(_, _, _, _, _, _, _, _, _, _)

\* _.each(val, (v, i) => ...) of the array branch, from item i (counted from 1) on
parseItems(bb, idx, val, i, currentPosition, affectedKey, operator, adjusted) ==
  IF i > Len(val.e) THEN [idx |-> idx, val |-> val]
  ELSE
    LET itemPosition == IF Truthy(currentPosition)
                        THEN Bracket(currentPosition, NumStr(i - 1))
                        ELSE NumStr(i - 1)
        idx1 == IF Truthy(currentPosition)
                THEN [idx EXCEPT !.arrayItemPositions = Append(@, itemPosition)]
                ELSE idx
        r == parseObj(bb, idx1, val.e[i], itemPosition,
                      Tpl(affectedKey) \o <<".">> \o NumStr(i - 1),
                      operator, adjusted, TRUE)
    IN  parseItems(bb, r.idx, [val EXCEPT !.e[i] = r.val], i + 1,
                   currentPosition, affectedKey, operator, adjusted)

\* _.each(val, (v, k) => ...) of the object branch over the property names it
\* started with, from the i-th on
parseProps(bb, idx, val, names, i, currentPosition, affectedKey, operator, adjusted, isWithinArray) ==
  IF i > Len(names) THEN [idx |-> idx, val |-> val]
  ELSE
    LET name == names[i]
        v == Lookup(val.f, name)
    IN  IF v = undefined
        THEN parseProps(bb, idx, PropDelete(val, name), names, i + 1, currentPosition,
                        affectedKey, operator, adjusted, isWithinArray)
        ELSE IF name # KeySlice
        THEN LET r == parseObj(bb, idx, v,
                               IF Truthy(currentPosition)
                               THEN Bracket(currentPosition, name) ELSE name,
                               appendAffectedKey(affectedKey, name),
                               operator, adjusted, isWithinArray)
             IN  parseProps(bb, r.idx, PropSet(val, name, r.val), names, i + 1,
                            currentPosition, affectedKey, operator, adjusted,
                            isWithinArray)
        ELSE parseProps(bb, idx, val, names, i + 1, currentPosition, affectedKey,
                        operator, adjusted, isWithinArray)

\* Whether a non-empty plain object is marked as a parent and object position
\* (line 111)
MarksObjectParent(currentPosition, val) == Truthy(currentPosition) /\ ~IsEmpty(val)

parseObj(bb, idx, val0, currentPosition0, affectedKey0, operator0, adjusted0, isWithinArray) ==
  LET firstLevel == ~Truthy(operator0) /\ Truthy(affectedKey0) /\ Head(affectedKey0) = "$"
      operator == IF firstLevel THEN affectedKey0 ELSE operator0
      affectedKey1 == IF firstLevel THEN nullS ELSE affectedKey0
      hasKey == Truthy(affectedKey1)
      isAppend == hasKey /\ ~adjusted0 /\ operator \in {OpPush, OpAddToSet, OpPop}
      isPull == hasKey /\ ~adjusted0 /\ operator = OpPull
      jump == isAppend /\ isBasicObject(val0) /\ HasKey(val0.f, KeyEach)
      val == IF jump THEN Lookup(val0.f, KeyEach) ELSE val0
      currentPosition == IF jump THEN Bracket(currentPosition0, KeyEach)
                         ELSE currentPosition0
      affectedKey == IF (isAppend /\ ~jump) \/ isPull
                     THEN Tpl(affectedKey1) \o <<".", "0">>
                     ELSE affectedKey1
      stop == isPull /\ isBasicObject(val0)
      adjusted == adjusted0 \/ isAppend \/ isPull
      affectedKeyGeneric == makeKeyGeneric(affectedKey)
      affectedKeyIsBlackBox == hasKey /\ InSeq(affectedKeyGeneric, bb)
      idx1 == IF hasKey /\ Truthy(currentPosition)
              THEN [idx EXCEPT
                      !.affectedKeys = Put(@, currentPosition, affectedKey),
                      !.genericAffectedKeys = Put(@, currentPosition, affectedKeyGeneric),
                      !.positionsInsideArrays =
                          IF isWithinArray THEN Append(@, currentPosition) ELSE @]
              ELSE idx
      \* the value val0 becomes when the value traversed (val0 itself, or its
      \* $each property) has become newVal
      Back(newVal) == IF jump THEN PropSet(val0, KeyEach, newVal) ELSE newVal
  IN  IF stop THEN [idx |-> idx1, val |-> val0]
      ELSE IF IsArray(val) /\ Len(val.e) > 0
      THEN LET idx2 == IF Truthy(currentPosition)
                       THEN [idx1 EXCEPT !.parentPositions = Append(@, currentPosition)]
                       ELSE idx1
               r == parseItems(bb, idx2, val, 1, currentPosition, affectedKey,
                               operator, adjusted)
           IN  [idx |-> r.idx, val |-> Back(r.val)]
      ELSE IF (isBasicObject(val) /\ ~affectedKeyIsBlackBox) \/ ~Truthy(currentPosition)
      THEN LET idx2 == IF MarksObjectParent(currentPosition, val)
                       THEN [idx1 EXCEPT
                               !.parentPositions = Append(@, currentPosition),
                               !.objectPositions = Append(@, currentPosition)]
                       ELSE idx1
           IN  IF isBasicObject(val)
               THEN LET names == [i \in 1..Len(val.f) |-> val.f[i][1]]
                        r == parseProps(bb, idx2, val, names, 1, currentPosition,
                                        affectedKey, operator, adjusted, isWithinArray)
                    IN  [idx |-> r.idx, val |-> Back(r.val)]
               ELSE [idx |-> idx2, val |-> val0]
      ELSE [idx |-> idx1, val |-> val0]

\* _reParseObj: the fresh index of the document, and the document as pruned
reParseObj(bb, doc) ==
  parseObj(bb, EmptyIndex, doc, undefinedS, undefinedS, undefinedS, FALSE, FALSE)

-----------------------------------------------------------------------------
(* The accessor *)

\* position.split(/\[/), or position.split(/\[|\./) when traverseObject
Subkeys(position, traverseObject) ==
  Split(position, IF traverseObject THEN {"[", "."} ELSE {"["})

\* if (subkey.slice(-1) === ']') subkey = subkey.slice(0, -1)
StripBracket(subkey) ==
  IF Len(subkey) > 0 /\ subkey[Len(subkey)] = "]"
  THEN SubSeq(subkey, 1, Len(subkey) - 1) ELSE subkey

IsContainer(v) == IsArray(v) \/ isBasicObject(v)

\* getFrom with a slip: the marker of a removed element is returned as a value
RECURSIVE getFrom_ReportsMarker(_, _, _)
getFrom_ReportsMarker(current, subkeys, i) ==
  LET next == PropGet(current, StripBracket(subkeys[i]))
  IN  IF i = Len(subkeys) THEN next
      ELSE IF ~IsContainer(next) THEN undefined
      ELSE getFrom_ReportsMarker(next, subkeys, i + 1)

\* the loop of getValueForPosition from subkey i on; current is a container
RECURSIVE getFrom(_, _, _)
getFrom(current, subkeys, i) ==
  LET next == PropGet(current, StripBracket(subkeys[i]))
  IN  IF i = Len(subkeys)
      THEN IF next = REMOVED_MARKER THEN undefined ELSE next
      ELSE IF ~IsContainer(next) THEN undefined
      ELSE getFrom(next, subkeys, i + 1)

getValueForPosition(doc, position, traverseObject) ==
  getFrom(doc, Subkeys(position, traverseObject), 1)

\* setTerminal with a slip: a property that has a value keeps it
setTerminal_KeepsExisting(current, subkey, value) ==
  IF value = undefined
  THEN IF IsArray(current) THEN PropSet(current, subkey, REMOVED_MARKER)
       ELSE PropDelete(current, subkey)
  ELSE IF PropGet(current, subkey) # undefined THEN current
  ELSE PropSet(current, subkey, value)

\* What the last subkey of setValueForPosition writes (lines 223-235)
setTerminal(current, subkey, value) ==
  IF value = undefined
  THEN IF IsArray(current) THEN PropSet(current, subkey, REMOVED_MARKER)
       ELSE PropDelete(current, subkey)
  ELSE PropSet(current, subkey, value)

\* setFrom with a slip: a value on the way that is no container is replaced by a
\* new container, as a missing one is
RECURSIVE setFrom_Overwrites(_, _, _, _)
setFrom_Overwrites(current, subkeys, i, value) ==
  LET subkey == StripBracket(subkeys[i])
  IN  IF i = Len(subkeys)
      THEN [val |-> setTerminal(current, subkey, value), done |-> TRUE]
      ELSE
        LET created == IF ~IsContainer(PropGet(current, subkey)) /\ value # undefined
                       THEN PropSet(current, subkey,
                                    IF ParseIntIsNaN(subkeys[i + 1]) THEN Obj(<<>>)
                                    ELSE Arr(<<>>))
                       ELSE current
            deeper == PropGet(created, subkey)
        IN  IF ~IsContainer(deeper) THEN [val |-> created, done |-> FALSE]
            ELSE LET r == setFrom_Overwrites(deeper, subkeys, i + 1, value)
                 IN  [val |-> PropSet(created, subkey, r.val), done |-> r.done]

\* the loop of setValueForPosition from subkey i on: current as the loop leaves
\* it, and whether the loop ran to its end (FALSE: the early return of line 250)
RECURSIVE setFrom(_, _, _, _)
setFrom(current, subkeys, i, value) ==
  LET subkey == StripBracket(subkeys[i])
  IN  IF i = Len(subkeys)
      THEN [val |-> setTerminal(current, subkey, value), done |-> TRUE]
      ELSE
        LET created == IF PropGet(current, subkey) = undefined /\ value # undefined
                       THEN PropSet(current, subkey,
                                    IF ParseIntIsNaN(subkeys[i + 1]) THEN Obj(<<>>)
                                    ELSE Arr(<<>>))
                       ELSE current
            deeper == PropGet(created, subkey)
        IN  IF ~IsContainer(deeper) THEN [val |-> created, done |-> FALSE]
            ELSE LET r == setFrom(deeper, subkeys, i + 1, value)
                 IN  [val |-> PropSet(created, subkey, r.val), done |-> r.done]

\* An instance: the document and the index built from it
Instance(doc, idx) == [obj |-> doc, idx |-> idx]

\* new MongoObject(doc, bb)
construct(bb, doc) ==
  LET r == reParseObj(bb, doc) IN Instance(r.val, r.idx)

\* setValueForPosition(position, value, traverseObject) on the instance st
setValueForPosition(bb, st, position, value, traverseObject) ==
  LET r == setFrom(st.obj, Subkeys(position, traverseObject), 1, value)
  IN  IF r.done THEN construct(bb, r.val)
      ELSE Instance(r.val, st.idx)

removeValueForPosition(bb, st, position, traverseObject) ==
  setValueForPosition(bb, st, position, undefined, traverseObject)

-----------------------------------------------------------------------------
(* The key-level API *)

\* this._affectedKeys[position] (undefined when the position is not indexed)
LookupS(f, name) ==
  IF HasKey(f, name) THEN f[CHOOSE i \in 1..Len(f) : f[i][1] = name][2] ELSE undefinedS

\* Object.getOwnPropertyNames(f)
Names(f) == [i \in 1..Len(f) |-> f[i][1]]

\* removeGenericKeyFrom with a slip: the loop ends at the first match
RECURSIVE removeGenericKeyFrom_FirstOnly(_, _, _, _, _)
removeGenericKeyFrom_FirstOnly(bb, st, positions, i, key) ==
  IF i > Len(positions) THEN st
  ELSE IF LookupS(st.idx.genericAffectedKeys, positions[i]) = key
  THEN removeValueForPosition(bb, st, positions[i], FALSE)
  ELSE removeGenericKeyFrom_FirstOnly(bb, st, positions, i + 1, key)

\* removeGenericKey(key): the loop over the positions listed when it starts
RECURSIVE removeGenericKeyFrom(_, _, _, _, _)
removeGenericKeyFrom(bb, st, positions, i, key) ==
  IF i > Len(positions) THEN st
  ELSE removeGenericKeyFrom(bb,
         IF LookupS(st.idx.genericAffectedKeys, positions[i]) = key
         THEN removeValueForPosition(bb, st, positions[i], FALSE) ELSE st,
         positions, i + 1, key)

removeGenericKey(bb, st, key) ==
  removeGenericKeyFrom(bb, st, Names(st.idx.genericAffectedKeys), 1, key)

RECURSIVE removeKeyFrom(_, _, _, _, _)
removeKeyFrom(bb, st, positions, i, key) ==
  IF i > Len(positions) THEN st
  ELSE removeKeyFrom(bb,
         IF LookupS(st.idx.affectedKeys, positions[i]) = key
         THEN removeValueForPosition(bb, st, positions[i], FALSE) ELSE st,
         positions, i + 1, key)

removeKey(bb, st, key) == removeKeyFrom(bb, st, Names(st.idx.affectedKeys), 1, key)

RECURSIVE setValueForKeyFrom(_, _, _, _, _, _)
setValueForKeyFrom(bb, st, positions, i, key, val) ==
  IF i > Len(positions) THEN st
  ELSE setValueForKeyFrom(bb,
         IF LookupS(st.idx.affectedKeys, positions[i]) = key
         THEN setValueForPosition(bb, st, positions[i], val, FALSE) ELSE st,
         positions, i + 1, key, val)

setValueForKey(bb, st, key, val) ==
  setValueForKeyFrom(bb, st, Names(st.idx.affectedKeys), 1, key, val)

RECURSIVE setValueForGenericKeyFrom(_, _, _, _, _, _)
setValueForGenericKeyFrom(bb, st, positions, i, key, val) ==
  IF i > Len(positions) THEN st
  ELSE setValueForGenericKeyFrom(bb,
         IF LookupS(st.idx.genericAffectedKeys, positions[i]) = key
         THEN setValueForPosition(bb, st, positions[i], val, FALSE) ELSE st,
         positions, i + 1, key, val)

setValueForGenericKey(bb, st, key, val) ==
  setValueForGenericKeyFrom(bb, st, Names(st.idx.genericAffectedKeys), 1, key, val)

\* getPositionForKey(key): the first position whose key is key, or undefined
getPositionForKey(idx, key) ==
  IF \E i \in 1..Len(idx.affectedKeys) : idx.affectedKeys[i][2] = key
  THEN idx.affectedKeys[CHOOSE i \in 1..Len(idx.affectedKeys) :
                          /\ idx.affectedKeys[i][2] = key
                          /\ \A j \in 1..(i - 1) : idx.affectedKeys[j][2] # key][1]
  ELSE undefinedS

\* affectsKey(key): !!getPositionForKey(key)
affectsKey(idx, key) == Truthy(getPositionForKey(idx, key))

\* Without with a slip: the value filtered out is undefined, not the marker
Without_Undefined(array) == Arr(SelectSeq(array.e, LAMBDA v : v # undefined))

\* _.without(array, REMOVED_MARKER): a new array of the other elements
Without(array) == Arr(SelectSeq(array.e, LAMBDA v : v # REMOVED_MARKER))

\* traverse(obj) of removeArrayItems: obj as the call leaves it
RECURSIVE traverse(_)
traverse(o) ==
  LET Step(next) == IF isBasicObject(next) THEN traverse(next)
                    ELSE IF IsArray(next) THEN traverse(Without(next))
                    ELSE next
  IN  IF o.k = "obj" THEN Obj([i \in 1..Len(o.f) |-> <<o.f[i][1], Step(o.f[i][2])>>])
      ELSE IF o.k = "arr" THEN [o EXCEPT !.e = [i \in 1..Len(o.e) |-> Step(o.e[i])]]
      ELSE o

\* removeArrayItems(): the document is compacted, the index is left as it is
removeArrayItems(st) == Instance(traverse(st.obj), st.idx)

-----------------------------------------------------------------------------
(* The instance as a state machine: Spec *)

\* Bounds of the model
MaxOps == 2        \* calls made on one instance
MaxIndex == 3      \* largest array index a call writes at

Ka == <<"a">>
Kb == <<"b">>
Kc == <<"c">>

P1(n1, v1) == Obj(<< <<n1, v1>> >>)
P2(n1, v1, n2, v2) == Obj(<< <<n1, v1>>, <<n2, v2>> >>)

\* Values of the property a of the documents an instance is made of
MainValues ==
  { Num1, null, Obj(<<>>), Arr(<<>>),
    P1(Kb, Num1), P1(Kb, undefined), P2(Kb, Num1, Kc, Num2),
    P1(Kb, Arr(<<Num1, Num2>>)),
    Arr(<<Num1>>), Arr(<<Num1, Num2, Num3>>),
    Arr(<<P2(Kb, Num1, Kc, Num2), P1(Kb, Num3)>>),
    Arr(<<Arr(<<Num1, Num2>>), Num3>>) }

\* Update modifiers an instance is made of
MainModifiers ==
  { P1(OpPush, P1(Ka, P2(KeyEach, Arr(<<Num1, Num2>>), KeySlice, Num3))),
    P1(OpPush, P2(Ka, Num1, Kb, P1(Kc, Num2))),
    P1(OpPull, P2(Ka, P1(Kb, Num1), Kb, Num2)),
    P2(OpSet, P1(Ka, Arr(<<Num1, Num2>>)), OpPull, P1(Ka, Num1)) }

MainDocs ==
  {Obj(<<>>)} \cup MainModifiers
  \cup {P1(Ka, v) : v \in MainValues}
  \cup {P2(Ka, v, Kb, Num2) : v \in {Num1, P1(Kb, Num1), Arr(<<Num1, Num2, Num3>>)}}
  \cup {P2(Ka, Num1, Kb, undefined)}

\* Values a call sets
SetValues == {Num3, P1(Kb, undefined), Arr(<<Num3>>)}

Pos1(n1, n2) == n1 \o <<"[">> \o n2 \o <<"]">>

\* Positions a call names besides the indexed ones: a new property, a property
\* and an element under a, a path through a that creates containers
ExtraPositions ==
  { Kc, Pos1(Ka, Kb), Pos1(Ka, NumStr(MaxIndex)), Pos1(Pos1(Ka, <<"0">>), Kb),
    Pos1(Pos1(Kc, <<"0">>), Kb) }

\* with traverseObject: the same paths in dot notation
DotPositions == { Ka \o <<".">> \o Kb }

Idx ==
  [affectedKeys |-> affectedKeys, genericAffectedKeys |-> genericAffectedKeys,
   parentPositions |-> parentPositions, positionsInsideArrays |-> positionsInsideArrays,
   objectPositions |-> objectPositions, arrayItemPositions |-> arrayItemPositions]

This == Instance(obj, Idx)

\* the instance becomes st
Becomes(st) ==
  /\ obj' = st.obj
  /\ affectedKeys' = st.idx.affectedKeys
  /\ genericAffectedKeys' = st.idx.genericAffectedKeys
  /\ parentPositions' = st.idx.parentPositions
  /\ positionsInsideArrays' = st.idx.positionsInsideArrays
  /\ objectPositions' = st.idx.objectPositions
  /\ arrayItemPositions' = st.idx.arrayItemPositions

NoIter == [active |-> FALSE]
NoStatic == [op |-> ""]

\* the record of a call: its name and arguments, the instance before it, and the
\* name, position and document of the call before it
Call(op, position, traverseObject, value, key) ==
  [op |-> op, position |-> position, traverseObject |-> traverseObject,
   value |-> value, key |-> key, func |-> "", threw |-> FALSE, pre |-> This,
   prev |-> [op |-> last.op, position |-> last.position, obj |-> last.pre.obj]]

IndexedPositions == {affectedKeys[i][1] : i \in 1..Len(affectedKeys)}
IndexedKeys == {affectedKeys[i][2] : i \in 1..Len(affectedKeys)}
IndexedGenericKeys == {genericAffectedKeys[i][2] : i \in 1..Len(genericAffectedKeys)}

PositionArgs ==
  ((IndexedPositions \cup ExtraPositions) \X {FALSE}) \cup (DotPositions \X {TRUE})

Init ==
  /\ blackboxKeys = <<>>
  /\ \E doc \in MainDocs :
       LET st == construct(<<>>, doc)
       IN  /\ obj = st.obj
           /\ affectedKeys = st.idx.affectedKeys
           /\ genericAffectedKeys = st.idx.genericAffectedKeys
           /\ parentPositions = st.idx.parentPositions
           /\ positionsInsideArrays = st.idx.positionsInsideArrays
           /\ objectPositions = st.idx.objectPositions
           /\ arrayItemPositions = st.idx.arrayItemPositions
           /\ last = [op |-> "new", position |-> <<>>, traverseObject |-> FALSE,
                      value |-> undefined, key |-> <<>>, func |-> "", threw |-> FALSE,
                      pre |-> Instance(doc, EmptyIndex),
                      prev |-> [op |-> "", position |-> <<>>, obj |-> doc]]
  /\ steps = 0
  /\ iter = NoIter
  /\ input = NoStatic
  /\ result = NoStatic

\* The documents of the model are trees of plain objects, arrays and leaves: a
\* call whose path names a property of an array that is not an index (which
\* JavaScript would store on the array object) is not among the calls modelled.
RECURSIVE NamesArrayPropertyFrom(_, _, _)
NamesArrayPropertyFrom(current, subkeys, i) ==
  LET subkey == StripBracket(subkeys[i])
  IN  IF ~IsContainer(current) THEN FALSE
      ELSE IF IsArray(current) /\ ~IsArrayIndex(subkey) THEN TRUE
      ELSE IF i = Len(subkeys) THEN FALSE
      ELSE IF PropGet(current, subkey) = undefined
      THEN ~ParseIntIsNaN(subkeys[i + 1]) /\ ~IsArrayIndex(StripBracket(subkeys[i + 1]))
      ELSE NamesArrayPropertyFrom(PropGet(current, subkey), subkeys, i + 1)

NamesArrayProperty(doc, position, traverseObject) ==
  NamesArrayPropertyFrom(doc, Subkeys(position, traverseObject), 1)

Called(call) ==
  /\ last' = call
  /\ steps' = steps + 1
  /\ UNCHANGED <<blackboxKeys, iter, input, result>>

SetValueForPosition ==
  /\ steps < MaxOps
  /\ \E arg \in PositionArgs, value \in SetValues :
       /\ ~NamesArrayProperty(obj, arg[1], arg[2])
       /\ Becomes(setValueForPosition(blackboxKeys, This, arg[1], value, arg[2]))
       /\ Called(Call("setValueForPosition", arg[1], arg[2], value, <<>>))

RemoveValueForPosition ==
  /\ steps < MaxOps
  /\ \E arg \in PositionArgs :
       /\ ~NamesArrayProperty(obj, arg[1], arg[2])
       /\ Becomes(removeValueForPosition(blackboxKeys, This, arg[1], arg[2]))
       /\ Called(Call("removeValueForPosition", arg[1], arg[2], undefined, <<>>))

SetValueForKey ==
  /\ steps < MaxOps
  /\ \E key \in IndexedKeys \cup {Kc} :
       /\ Becomes(setValueForKey(blackboxKeys, This, key, Num3))
       /\ Called(Call("setValueForKey", <<>>, FALSE, Num3, key))

SetValueForGenericKey ==
  /\ steps < MaxOps
  /\ \E key \in IndexedGenericKeys \cup {Kc} :
       /\ Becomes(setValueForGenericKey(blackboxKeys, This, key, Num3))
       /\ Called(Call("setValueForGenericKey", <<>>, FALSE, Num3, key))

RemoveKey ==
  /\ steps < MaxOps
  /\ \E key \in IndexedKeys \cup {Kc} :
       /\ Becomes(removeKey(blackboxKeys, This, key))
       /\ Called(Call("removeKey", <<>>, FALSE, undefined, key))

RemoveGenericKey ==
  /\ steps < MaxOps
  /\ \E key \in IndexedGenericKeys \cup {Kc} :
       /\ Becomes(removeGenericKey(blackboxKeys, This, key))
       /\ Called(Call("removeGenericKey", <<>>, FALSE, undefined, key))

RemoveArrayItems ==
  /\ steps < MaxOps
  /\ Becomes(removeArrayItems(This))
  /\ Called(Call("removeArrayItems", <<>>, FALSE, undefined, <<>>))

Next ==
  \/ SetValueForPosition
  \/ RemoveValueForPosition
  \/ SetValueForKey
  \/ SetValueForGenericKey
  \/ RemoveKey
  \/ RemoveGenericKey
  \/ RemoveArrayItems

Spec == Init /\ [][Next]_vars

-----------------------------------------------------------------------------
(* forEachNode, one visitor call at a time: SpecForEach *)

\* Bounds of the model
MaxIterations == 1   \* forEachNode calls made on one instance
MaxWrites == 2       \* updateValue and remove calls the visitor makes in one iteration

\* typeof func of the argument handed to forEachNode
Funcs == {"function", "undefined"}

\* values the visitor hands to updateValue
UpdateValues == {Num3, Arr(<<>>)}

\* forEachNodeThrows with a slip: the argument is not looked at
forEachNodeThrows_Never(func) == FALSE

\* if (typeof func !== 'function') throw new Error(...)
forEachNodeThrows(func) == func # "function"

\* updateValue with a slip: the value is written at once
updateValue_AtOnce(bb, st, updatedValues, position, newVal) ==
  [st |-> setValueForPosition(bb, st, position, newVal, FALSE),
   updatedValues |-> updatedValues]

\* updateValue: (newVal) => { updatedValues[position] = newVal }, and remove, which
\* is the same with undefined: the instance and updatedValues after the call
updateValue(bb, st, updatedValues, position, newVal) ==
  [st |-> st, updatedValues |-> Put(updatedValues, position, newVal)]

\* _.each(updatedValues, (newVal, position) => this.setValueForPosition(position, newVal))
RECURSIVE applyUpdatedValues(_, _, _, _)
applyUpdatedValues(bb, st, updatedValues, i) ==
  IF i > Len(updatedValues) THEN st
  ELSE applyUpdatedValues(bb,
         setValueForPosition(bb, st, updatedValues[i][1], updatedValues[i][2], FALSE),
         updatedValues, i + 1)

\* forEachNode(func) with an argument that is not a function: the throw
ForEachNodeThrows ==
  /\ ~iter.active
  /\ steps < MaxIterations
  /\ \E func \in Funcs :
       /\ forEachNodeThrows(func)
       /\ last' = [Call("forEachNode", <<>>, FALSE, undefined, <<>>)
                     EXCEPT !.func = func, !.threw = TRUE]
  /\ steps' = steps + 1
  /\ UNCHANGED <<instanceVars, iter, input, result>>

\* forEachNode(func, {endPointsOnly}): up to the first turn of the loop
ForEachNodeStart ==
  /\ ~iter.active
  /\ steps < MaxIterations
  /\ \E func \in Funcs, endPointsOnly \in BOOLEAN :
       /\ ~forEachNodeThrows(func)
       /\ iter' = [active |-> TRUE, func |-> func, endPointsOnly |-> endPointsOnly,
                   entries |-> affectedKeys, i |-> 1, updatedValues |-> <<>>,
                   seen |-> <<>>, pre |-> This]
  /\ steps' = steps + 1
  /\ UNCHANGED <<instanceVars, last, input, result>>

\* one turn of the loop over this._affectedKeys: a parent position is passed over
\* when endPointsOnly; otherwise the visitor is called with the value at the
\* position, and calls updateValue, remove or neither
ForEachNodeVisit ==
  /\ iter.active
  /\ iter.i <= Len(iter.entries)
  /\ LET position == iter.entries[iter.i][1]
         value == getValueForPosition(obj, position, FALSE)
         visited == [iter EXCEPT !.i = @ + 1,
                                 !.seen = Append(@, [position |-> position,
                                                     value |-> value])]
     IN  IF iter.endPointsOnly /\ InSeq(position, parentPositions)
         THEN /\ iter' = [iter EXCEPT !.i = @ + 1]
              /\ UNCHANGED instanceVars
         ELSE \/ /\ iter' = visited
                 /\ UNCHANGED instanceVars
              \/ /\ Len(iter.updatedValues) < MaxWrites
                 /\ \E newVal \in UpdateValues \cup {undefined} :
                      LET r == updateValue(blackboxKeys, This, iter.updatedValues,
                                           position, newVal)
                      IN  /\ iter' = [visited EXCEPT !.updatedValues = r.updatedValues]
                          /\ Becomes(r.st)
                          /\ UNCHANGED blackboxKeys
  /\ UNCHANGED <<steps, last, input, result>>

\* after the loop: the scheduled values are written, and forEachNode returns
ForEachNodeReturn ==
  /\ iter.active
  /\ iter.i > Len(iter.entries)
  /\ Becomes(applyUpdatedValues(blackboxKeys, This, iter.updatedValues, 1))
  /\ last' = [Call("forEachNode", <<>>, FALSE, undefined, <<>>)
                EXCEPT !.func = iter.func, !.pre = iter.pre]
  /\ iter' = [iter EXCEPT !.active = FALSE]
  /\ UNCHANGED <<blackboxKeys, steps, input, result>>

NextForEach ==
  \/ ForEachNodeThrows
  \/ ForEachNodeStart
  \/ ForEachNodeVisit
  \/ ForEachNodeReturn

SpecForEach == Init /\ [][NextForEach]_vars

-----------------------------------------------------------------------------
(* Flattening, cleaning and expanding *)

\* getFlatObject({keepArrays}) of the instance st
RECURSIVE getFlatObjectFrom(_, _, _, _)
getFlatObjectFrom(st, keepArrays, i, newObj) ==
  IF i > Len(st.idx.affectedKeys) THEN newObj
  ELSE LET position == st.idx.affectedKeys[i][1]
           affectedKey == st.idx.affectedKeys[i][2]
       IN  getFlatObjectFrom(st, keepArrays, i + 1,
             IF \/ /\ IsStringS(affectedKey)
                   /\ keepArrays
                   /\ ~InSeq(position, st.idx.positionsInsideArrays)
                   /\ ~InSeq(position, st.idx.objectPositions)
                \/ /\ ~keepArrays
                   /\ ~InSeq(position, st.idx.parentPositions)
             THEN PropSet(newObj, affectedKey,
                          getValueForPosition(st.obj, position, FALSE))
             ELSE newObj)

getFlatObject(st, keepArrays) == getFlatObjectFrom(st, keepArrays, 1, Obj(<<>>))

\* isNullUndefinedOrEmptyString with a slip: null is not tested
isNullUndefinedOrEmptyString_NotNull(val) ==
  val = undefined \/ (val.k = "leaf" /\ val.ty = "string" /\ val.s = "")

isNullUndefinedOrEmptyString(val) ==
  val = undefined \/ val = null \/ (val.k = "leaf" /\ val.ty = "string" /\ val.s = "")

\* What _.each(doc, (val, key) => ...) visits: the elements of an array under
\* their indexes, the properties of an object under their names
Entries(doc) ==
  IF IsArray(doc) THEN [i \in 1..Len(doc.e) |-> <<NumStr(i - 1), doc.e[i]>>]
  ELSE IF doc.k = "obj" THEN doc.f
  ELSE <<>>

\* cleanNulls(doc, isArray, keepEmptyStrings).  An element that is left out of an
\* array before one that is kept leaves a hole, which reads as undefined.
RECURSIVE cleanNulls(_, _, _)
RECURSIVE cleanNullsFrom(_, _, _, _)
cleanNullsFrom(entries, i, newDoc, keepEmptyStrings) ==
  IF i > Len(entries) THEN newDoc
  ELSE LET key == entries[i][1]
           val == entries[i][2]
           cleaned == cleanNulls(val, IsArray(val), keepEmptyStrings)
       IN  cleanNullsFrom(entries, i + 1,
             IF ~IsArray(val) /\ isBasicObject(val)
             THEN IF ~IsEmpty(cleaned) THEN PropSet(newDoc, key, cleaned) ELSE newDoc
             ELSE IF IsArray(val)
             THEN IF ~IsEmpty(cleaned) THEN PropSet(newDoc, key, cleaned) ELSE newDoc
             ELSE IF ~isNullUndefinedOrEmptyString(val)
             THEN PropSet(newDoc, key, val)
             ELSE IF keepEmptyStrings /\ val.ty = "string" /\ val.s = ""
             THEN PropSet(newDoc, key, val)
             ELSE newDoc,
             keepEmptyStrings)

cleanNulls(doc, isArray, keepEmptyStrings) ==
  cleanNullsFrom(Entries(doc), 1, IF isArray THEN Arr(<<>>) ELSE Obj(<<>>),
                 keepEmptyStrings)

\* reportNulls(flatDoc, keepEmptyStrings)
RECURSIVE reportNullsFrom(_, _, _, _)
reportNullsFrom(entries, i, nulls, keepEmptyStrings) ==
  IF i > Len(entries) THEN nulls
  ELSE LET key == entries[i][1]
           val == entries[i][2]
       IN  reportNullsFrom(entries, i + 1,
             IF \/ val = null
                \/ val = undefined
                \/ (~keepEmptyStrings /\ val.k = "leaf" /\ val.ty = "string" /\ val.s = "")
                \/ (IsArray(val) /\ Len(cleanNulls(val, TRUE, keepEmptyStrings).e) = 0)
             THEN PropSet(nulls, key, EmptyString)
             ELSE nulls,
             keepEmptyStrings)

reportNulls(flatDoc, keepEmptyStrings) ==
  reportNullsFrom(Entries(flatDoc), 1, Obj(<<>>), keepEmptyStrings)

OpUnset == <<"$", "u", "n", "s", "e", "t">>

\* MongoObject.docToModifier(doc, {keepArrays, keepEmptyStrings})
docToModifier(doc, keepArrays, keepEmptyStrings) ==
  LET mDoc == construct(<<>>, doc)
      flatDoc0 == getFlatObject(mDoc, keepArrays)
      nulls == reportNulls(flatDoc0, keepEmptyStrings)
      flatDoc == cleanNulls(flatDoc0, FALSE, keepEmptyStrings)
      withSet == IF ~IsEmpty(flatDoc) THEN PropSet(Obj(<<>>), OpSet, flatDoc)
                 ELSE Obj(<<>>)
  IN  IF ~IsEmpty(nulls) THEN PropSet(withSet, OpUnset, nulls) ELSE withSet

\* One key of expandObj: the loop over its subkeys from the i-th on, current being
\* the value reached; the result is current as the loop leaves it.  (A property
\* set on a value that is no plain object or array does not show in the value.)
RECURSIVE expandInto(_, _, _, _)
expandInto(current, subkeys, i, val) ==
  LET subkey == subkeys[i]
      at == PropGet(current, subkey)
  IN  IF ~IsContainer(current) THEN current
      ELSE IF at # undefined /\ ~IsObjectLodash(at) THEN current
      ELSE IF i = Len(subkeys) THEN PropSet(current, subkey, val)
      ELSE LET nextPieceIsNaN == ParseIntIsNaN(subkeys[i + 1])
               next == IF nextPieceIsNaN /\ ~IsObjectLodash(at) THEN Obj(<<>>)
                       ELSE IF ~nextPieceIsNaN /\ ~IsArray(at) THEN Arr(<<>>)
                       ELSE at
           IN  PropSet(current, subkey, expandInto(next, subkeys, i + 1, val))

\* MongoObject.expandObj(doc)
RECURSIVE expandObjFrom(_, _, _)
expandObjFrom(entries, i, newDoc) ==
  IF i > Len(entries) THEN newDoc
  ELSE expandObjFrom(entries, i + 1,
         expandInto(newDoc, Split(entries[i][1], {"."}), 1, entries[i][2]))

expandObj(doc) == expandObjFrom(Entries(doc), 1, Obj(<<>>))

-----------------------------------------------------------------------------
(* Keys and positions *)

\* the loop of _keyToPosition from the i-th piece on
RECURSIVE keyToPositionFrom(_, _, _, _)
keyToPositionFrom(pieces, i, wrapAll, position) ==
  IF i > Len(pieces) THEN position
  ELSE keyToPositionFrom(pieces, i + 1, wrapAll,
         IF i = 1 /\ ~wrapAll THEN position \o pieces[i]
         ELSE position \o <<"[">> \o pieces[i] \o <<"]">>)

\* _keyToPosition with a slip: the first piece is wrapped too
keyToPosition_WrapsAll(key, wrapAll) ==
  keyToPositionFrom(Split(key, {"."}), 1, TRUE, <<>>)

\* MongoObject._keyToPosition(key, wrapAll)
keyToPosition(key, wrapAll) == keyToPositionFrom(Split(key, {"."}), 1, wrapAll, <<>>)

\* getKeyForPosition(position) of the instance st
getKeyForPosition(st, position) == LookupS(st.idx.affectedKeys, position)

\* MongoObject._positionToKey(position)
positionToKey(position) ==
  LET mDoc == setValueForPosition(<<>>, construct(<<>>, Obj(<<>>)), position, Num1, FALSE)
  IN  getKeyForPosition(mDoc, position)

-----------------------------------------------------------------------------
(* The static functions and the constructor on one argument: SpecStatic *)

Kd == <<"d">>

\* Values of the property a of the documents handed to a static function
StaticValues ==
  { Num1, null, EmptyString, undefined, DateValue, Obj(<<>>), Arr(<<>>),
    P1(Kb, Num1), P1(Kb, null), P1(Kb, undefined), P2(Kb, undefined, Kc, Num1),
    P1(Kb, P1(Kc, Num1)), P1(<<"0">>, Num1),
    Arr(<<Num1, Num2>>), Arr(<<null, Num1>>), Arr(<<Num1, null>>),
    Arr(<<null, EmptyString>>), Arr(<<undefined, Num1>>), Arr(<<Obj(<<>>)>>),
    Arr(<<P1(Kb, Num1), P2(Kb, Num2, Kc, null)>>),
    Arr(<<Arr(<<Num1>>), Arr(<<>>)>>) }

\* Documents: the last two are the document of the toModifier example and a
\* document with a dot in a property name
PlainDocs ==
  {Obj(<<>>)}
  \cup {P1(Ka, v) : v \in StaticValues}
  \cup {P2(Ka, v, Kb, EmptyString) : v \in {Num1, null, Arr(<<>>), P1(Kb, Num1)}}
  \cup { Obj(<< <<Ka, null>>, <<Kb, EmptyString>>, <<Kc, Num1>>, <<Kd, Arr(<<>>)>> >>),
         P1(Ka \o <<".">> \o Kb, Num1) }

EachOps == {OpPush, OpAddToSet, OpPop}

EachArrays ==
  { Arr(<<>>), Arr(<<Num1, Num2>>), Arr(<<P1(Kb, Num1), Num2>>),
    Arr(<<P2(KeySlice, Num1, Kb, Num2)>>), Arr(<<Arr(<<Num1>>)>>) }

\* Operands of a field: $each with a sibling $slice on either side, $each alone,
\* and a plain value
EachOperands ==
  {P2(KeyEach, each, KeySlice, Num3) : each \in EachArrays}
  \cup {P2(KeySlice, Num3, KeyEach, each) : each \in EachArrays}
  \cup {P1(KeyEach, Arr(<<Num1, Num2>>)), Num1}

EachModifiers ==
  {P1(op, P1(Ka, operand)) : op \in EachOps, operand \in EachOperands}
  \cup {P1(op, P2(Ka, P2(KeyEach, Arr(<<Num1>>), KeySlice, Num3), Kb, Num2)) : op \in EachOps}

StaticDocs == PlainDocs \cup EachModifiers \cup MainModifiers

NoCall ==
  [op |-> "", position |-> <<>>, traverseObject |-> FALSE, value |-> undefined,
   key |-> <<>>, func |-> "", threw |-> FALSE,
   pre |-> Instance(Obj(<<>>), EmptyIndex),
   prev |-> [op |-> "", position |-> <<>>, obj |-> Obj(<<>>)]]

\* no instance has been made yet
NoInstance ==
  /\ blackboxKeys = <<>>
  /\ obj = Obj(<<>>)
  /\ affectedKeys = <<>>
  /\ genericAffectedKeys = <<>>
  /\ parentPositions = <<>>
  /\ positionsInsideArrays = <<>>
  /\ objectPositions = <<>>
  /\ arrayItemPositions = <<>>
  /\ steps = 0
  /\ last = NoCall
  /\ iter = NoIter

InitStatic ==
  /\ NoInstance
  /\ input \in StaticDocs
  /\ result = NoStatic

\* new MongoObject(input)
New ==
  /\ steps = 0
  /\ Becomes(construct(blackboxKeys, input))
  /\ last' = [NoCall EXCEPT !.op = "new", !.pre = Instance(input, EmptyIndex)]
  /\ steps' = 1
  /\ UNCHANGED <<blackboxKeys, iter, input, result>>

\* MongoObject.docToModifier(input, {keepArrays, keepEmptyStrings})
DocToModifier ==
  /\ steps = 0
  /\ input \in PlainDocs
  /\ \E keepArrays \in BOOLEAN, keepEmptyStrings \in BOOLEAN :
       result' = [op |-> "docToModifier", keepArrays |-> keepArrays,
                  keepEmptyStrings |-> keepEmptyStrings,
                  out |-> docToModifier(input, keepArrays, keepEmptyStrings)]
  /\ steps' = 1
  /\ UNCHANGED <<instanceVars, last, iter, input>>

\* MongoObject.expandObj(new MongoObject(input).getFlatObject({keepArrays: false}))
FlattenAndExpand ==
  /\ steps = 0
  /\ input \in PlainDocs
  /\ result' = [op |-> "expandObj",
                out |-> expandObj(getFlatObject(construct(<<>>, input), FALSE))]
  /\ steps' = 1
  /\ UNCHANGED <<instanceVars, last, iter, input>>

NextStatic ==
  \/ New
  \/ DocToModifier
  \/ FlattenAndExpand

SpecStatic == InitStatic /\ [][NextStatic]_vars

-----------------------------------------------------------------------------
(* makeKeyGeneric on one key: SpecKey *)

MaxKeyLen == 4     \* characters of a key

KeyAlphabet == {"a", "0", "1", ".", "$"}

\* Arguments of makeKeyGeneric: the strings over the alphabet and three values
\* that are not strings
\* Keys of the examples, and keys with a segment $each or $slice
KeyExamples ==
  { <<"a", ".", "b", ".", "0">>, <<"a", ".", "3", ".", "b">>,
    Ka \o <<".">> \o KeyEach, Ka \o <<".">> \o KeySlice \o <<".">> \o Kb }

KeyInputs ==
  UNION {[1..n -> KeyAlphabet] : n \in 0..MaxKeyLen}
  \cup KeyExamples \cup {undefinedS, nullS, numberS}

InitKey ==
  /\ NoInstance
  /\ input \in KeyInputs
  /\ result = NoStatic

\* MongoObject.makeKeyGeneric(input)
MakeKeyGeneric ==
  /\ steps = 0
  /\ result' = [op |-> "makeKeyGeneric", out |-> makeKeyGeneric(input)]
  /\ steps' = 1
  /\ UNCHANGED <<instanceVars, last, iter, input>>

MaxKeyIndex == 11  \* largest array index a key names

\* MongoObject._positionToKey(MongoObject._keyToPosition(input, wrapAll))
PositionToKey ==
  /\ steps = 0
  /\ IsStringS(input)
  /\ \A i \in 1..Len(Split(input, {"."})) :
       IsArrayIndex(Split(input, {"."})[i]) => ToNat(Split(input, {"."})[i]) <= MaxKeyIndex
  /\ \E wrapAll \in BOOLEAN :
       result' = [op |-> "positionToKey", wrapAll |-> wrapAll,
                  position |-> keyToPosition(input, wrapAll),
                  out |-> positionToKey(keyToPosition(input, wrapAll))]
  /\ steps' = 1
  /\ UNCHANGED <<instanceVars, last, iter, input>>

NextKey ==
  \/ MakeKeyGeneric
  \/ PositionToKey

SpecKey == InitKey /\ [][NextKey]_vars

-----------------------------------------------------------------------------
(* An instance made with black-box keys: SpecBlackBox *)

\* Lists of black-box generic keys
BlackBoxLists ==
  { <<>>, <<Ka>>, <<Ka \o <<".", "$">>>>, <<Ka \o <<".">> \o Kb, Kc>> }

\* Documents with undefined values in objects, in arrays, under a black-box key
\* and in the operands of operators
BlackBoxDocs ==
  { P1(Ka, P2(Kb, undefined, Kc, Num1)),
    P1(Ka, P1(Kb, P2(Kb, undefined, Kc, Num1))),
    P1(Ka, Arr(<<P1(Kb, undefined), undefined, Num3>>)),
    P2(Ka, Arr(<<Num1, Num2>>), Kc, P1(Kb, Num1)),
    P1(OpPull, P2(Ka, P1(Kb, undefined), Kb, Num2)),
    P1(OpPush, P1(Ka, P1(Kb, undefined))) }

InitBlackBox ==
  /\ blackboxKeys \in BlackBoxLists
  /\ \E doc \in BlackBoxDocs :
       LET st == construct(blackboxKeys, doc)
       IN  /\ obj = st.obj
           /\ affectedKeys = st.idx.affectedKeys
           /\ genericAffectedKeys = st.idx.genericAffectedKeys
           /\ parentPositions = st.idx.parentPositions
           /\ positionsInsideArrays = st.idx.positionsInsideArrays
           /\ objectPositions = st.idx.objectPositions
           /\ arrayItemPositions = st.idx.arrayItemPositions
           /\ last = [NoCall EXCEPT !.op = "new", !.pre = Instance(doc, EmptyIndex),
                                    !.prev.obj = doc]
  /\ steps = 0
  /\ iter = NoIter
  /\ input = NoStatic
  /\ result = NoStatic

SpecBlackBox == InitBlackBox /\ [][Next]_vars

-----------------------------------------------------------------------------
(* Vocabulary of the properties *)

\* v without the undefined properties of its plain objects, at every depth
RECURSIVE StripUndefined(_)
StripUndefined(v) ==
  IF v.k = "obj"
  THEN LET kept == SelectSeq(v.f, LAMBDA pr : pr[2] # undefined)
       IN  Obj([i \in 1..Len(kept) |-> <<kept[i][1], StripUndefined(kept[i][2])>>])
  ELSE IF v.k = "arr"
  THEN [v EXCEPT !.e = [i \in 1..Len(v.e) |-> StripUndefined(v.e[i])]]
  ELSE v

\* v without the tombstoned elements of its arrays, at every depth
RECURSIVE StripTombstones(_)
StripTombstones(v) ==
  IF v.k = "obj"
  THEN Obj([i \in 1..Len(v.f) |-> <<v.f[i][1], StripTombstones(v.f[i][2])>>])
  ELSE IF v.k = "arr"
  THEN LET kept == SelectSeq(v.e, LAMBDA x : x # REMOVED_MARKER)
       IN  [v EXCEPT !.e = [i \in 1..Len(kept) |-> StripTombstones(kept[i])]]
  ELSE v

\* s without its i-th element
DeleteAt(s, i) == SubSeq(s, 1, i - 1) \o SubSeq(s, i + 1, Len(s))

\* the last index of s that holds c, 0 when none does
LastIndexOf(s, c) ==
  IF \E i \in 1..Len(s) : s[i] = c
  THEN CHOOSE i \in 1..Len(s) : s[i] = c /\ \A j \in (i + 1)..Len(s) : s[j] # c
  ELSE 0

HasBracket(position) == LastIndexOf(position, "[") > 0
\* a bracketed position without its last segment, and that segment
ParentPosition(position) == SubSeq(position, 1, LastIndexOf(position, "[") - 1)
LastSegment(position) ==
  StripBracket(SubSeq(position, LastIndexOf(position, "[") + 1, Len(position)))

\* position names an element the array at its parent position holds in doc
IsArrayElement(doc, position) ==
  /\ HasBracket(position)
  /\ IsArray(getValueForPosition(doc, ParentPosition(position), FALSE))
  /\ IsArrayIndex(LastSegment(position))
  /\ ToNat(LastSegment(position))
       < Len(getValueForPosition(doc, ParentPosition(position), FALSE).e)

\* q lies strictly beneath p
IsBeneath(q, p) ==
  Len(q) > Len(p) /\ SubSeq(q, 1, Len(p)) = p /\ q[Len(p) + 1] = "["

\* On the way to the last subkey, from subkey i on, there is an existing value
\* that is neither a plain object nor an array
RECURSIVE MeetsNonContainerFrom(_, _, _)
MeetsNonContainerFrom(current, subkeys, i) ==
  IF i >= Len(subkeys) THEN FALSE
  ELSE LET next == PropGet(current, StripBracket(subkeys[i]))
       IN  IF next = undefined THEN FALSE
           ELSE IF ~IsContainer(next) THEN TRUE
           ELSE MeetsNonContainerFrom(next, subkeys, i + 1)

MeetsNonContainer(doc, position, traverseObject) ==
  MeetsNonContainerFrom(doc, Subkeys(position, traverseObject), 1)

-----------------------------------------------------------------------------
(* Properties *)

\* C1: after construction and after every call, the index (position -> key,
\* position -> generic key, parent positions, array-item positions) is the index
\* a fresh build over the current document produces.
C1_IndexIsFreshBuild ==
  LET fresh == reParseObj(blackboxKeys, obj).idx
  IN  /\ affectedKeys = fresh.affectedKeys
      /\ genericAffectedKeys = fresh.genericAffectedKeys
      /\ parentPositions = fresh.parentPositions
      /\ arrayItemPositions = fresh.arrayItemPositions

\* C2 as stated: right after setValueForPosition(p, v) with v other than
\* undefined, getValueForPosition(p) is v (the value set, which the rebuild may
\* have pruned of undefined properties), for every document and position.
C2_GetAfterSetAnyPosition ==
  (last.op = "setValueForPosition" /\ ~last.traverseObject)
    => StripUndefined(getValueForPosition(obj, last.position, FALSE))
         = StripUndefined(last.value)

\* C2 as amended: the same, for the positions on whose path the set meets no
\* existing value that is neither a plain object nor an array.
C2_GetAfterSet ==
  (/\ last.op = "setValueForPosition"
   /\ ~MeetsNonContainer(last.pre.obj, last.position, last.traverseObject))
    => StripUndefined(getValueForPosition(obj, last.position, last.traverseObject))
         = StripUndefined(last.value)

\* C2's case: a set through a path that did not exist has created the containers
C2_Witness ==
  /\ last.op = "setValueForPosition"
  /\ last.position = Pos1(Pos1(Kc, <<"0">>), Kb)
  /\ getValueForPosition(last.pre.obj, Kc, FALSE) = undefined
  /\ getValueForPosition(obj, last.position, FALSE) = Num3

\* C3: removing an element of an array and then compacting leaves the array with
\* that element deleted and every other element in place, in order and unchanged
\* (elements tombstoned earlier are already absent and go with it).
C3_RemoveThenCompact ==
  (/\ last.op = "removeArrayItems"
   /\ last.prev.op = "removeValueForPosition"
   /\ IsArrayElement(last.prev.obj, last.prev.position))
    => LET parent == ParentPosition(last.prev.position)
           before == getValueForPosition(last.prev.obj, parent, FALSE)
           after == getValueForPosition(obj, parent, FALSE)
           i == ToNat(LastSegment(last.prev.position)) + 1
       IN  /\ IsArray(after)
           /\ \A j \in 1..Len(after.e) : after.e[j] # REMOVED_MARKER
           /\ StripTombstones(after).e
                = StripTombstones([before EXCEPT !.e = DeleteAt(before.e, i)]).e

\* C3's case: the middle element of a three-element array is removed and the
\* array compacted to the other two
C3_Witness ==
  /\ last.op = "removeArrayItems"
  /\ last.prev.op = "removeValueForPosition"
  /\ last.prev.position = Pos1(Ka, <<"1">>)
  /\ getValueForPosition(last.prev.obj, Ka, FALSE) = Arr(<<Num1, Num2, Num3>>)
  /\ getValueForPosition(obj, Ka, FALSE) = Arr(<<Num1, Num3>>)

\* the positions removeGenericKey(key) is to remove, as indexed before the call
C4_Removed ==
  {last.pre.idx.genericAffectedKeys[i][1] :
     i \in {j \in 1..Len(last.pre.idx.genericAffectedKeys) :
              last.pre.idx.genericAffectedKeys[j][2] = last.key}}

C9_WritesAreDeferred ==
  iter.active =>
    /\ This = iter.pre
    /\ \A j \in 1..Len(iter.seen) :
         iter.seen[j].value
           = getValueForPosition(iter.pre.obj, iter.seen[j].position, FALSE)

\* C9's case: a visitor call is made after an earlier one scheduled a write to the
\* array it belongs to
C9_Witness ==
  /\ iter.active
  /\ Len(iter.updatedValues) > 0
  /\ iter.updatedValues[1][1] = Ka
  /\ Len(iter.seen) >= 2
  /\ iter.seen[Len(iter.seen)].position = Pos1(Ka, <<"0">>)
  /\ iter.seen[Len(iter.seen)].value = Num1

\* C10: forEachNode with an argument that is not a function throws: no iteration
\* is ever under way with such an argument, and after the call the document and
\* the index are what they were.
C10_NotAFunctionThrows ==
  /\ iter.active => iter.func = "function"
  /\ (last.op = "forEachNode" /\ last.func # "function")
       => (last.threw /\ This = last.pre)

\* C10's case: the call has thrown on an instance that has nodes to visit
C10_Witness ==
  /\ last.op = "forEachNode"
  /\ last.func = "undefined"
  /\ last.threw
  /\ Len(affectedKeys) > 1

\* x and y are the same tree: objects with the same property names (in any order)
\* and the same trees under them, arrays with the same trees element by element,
\* equal leaves
RECURSIVE SameStructure(_, _)
SameStructure(x, y) ==
  IF x.k = "obj" /\ y.k = "obj"
  THEN /\ {x.f[i][1] : i \in 1..Len(x.f)} = {y.f[i][1] : i \in 1..Len(y.f)}
       /\ \A i \in 1..Len(x.f) : SameStructure(x.f[i][2], Lookup(y.f, x.f[i][1]))
  ELSE IF x.k = "arr" /\ y.k = "arr"
  THEN /\ Len(x.e) = Len(y.e)
       /\ \A i \in 1..Len(x.e) : SameStructure(x.e[i], y.e[i])
       /\ SameStructure(Obj(x.p), Obj(y.p))
  ELSE x.k = y.k /\ x = y

\* C5: expanding the flat object of a document (keepArrays false) gives back the
\* document without its undefined properties.
C5_RoundTrip ==
  result.op = "expandObj"
    => SameStructure(StripUndefined(result.out), StripUndefined(input))

\* the properties of the group op of a modifier, none when the group is absent
Group(modifier, op) == IF HasKey(modifier.f, op) THEN Lookup(modifier.f, op).f ELSE <<>>

IsNullish(v, keepEmptyStrings) ==
  v = null \/ v = undefined \/ (~keepEmptyStrings /\ v = EmptyString)

\* v holds nothing: a null, undefined or (unless kept) empty string, or a
\* container all of whose members hold nothing
RECURSIVE Vacuous(_, _)
Vacuous(v, keepEmptyStrings) ==
  IF v.k = "obj" THEN \A i \in 1..Len(v.f) : Vacuous(v.f[i][2], keepEmptyStrings)
  ELSE IF v.k = "arr" THEN \A i \in 1..Len(v.e) : Vacuous(v.e[i], keepEmptyStrings)
  ELSE IsNullish(v, keepEmptyStrings)

\* v without the members that hold nothing, at every depth; the members of an
\* array keep their indexes, and the array ends at its last member
RECURSIVE Pruned(_, _)
Pruned(v, keepEmptyStrings) ==
  IF v.k = "obj"
  THEN LET kept == SelectSeq(v.f, LAMBDA pr : ~Vacuous(pr[2], keepEmptyStrings))
       IN  Obj([i \in 1..Len(kept) |-> <<kept[i][1], Pruned(kept[i][2], keepEmptyStrings)>>])
  ELSE IF v.k = "arr"
  THEN LET live == {i \in 1..Len(v.e) : ~Vacuous(v.e[i], keepEmptyStrings)}
           n == IF live = {} THEN 0 ELSE CHOOSE i \in live : \A j \in live : j <= i
       IN  Arr([i \in 1..n |-> IF i \in live THEN Pruned(v.e[i], keepEmptyStrings)
                              ELSE undefined])
  ELSE v

C6_Flat == getFlatObject(construct(<<>>, input), result.keepArrays).f

RECURSIVE JoinDots(_)
JoinDots(segments) ==
  IF Len(segments) = 0 THEN <<>>
  ELSE IF Len(segments) = 1 THEN segments[1]
  ELSE segments[1] \o <<".">> \o JoinDots(Tail(segments))

\* C7: makeKeyGeneric gives the key with every segment of digits, wherever it is,
\* replaced by $ and the other segments as they are; null for what is no string.
C7_MakeKeyGeneric ==
  result.op = "makeKeyGeneric" =>
    IF IsStringS(input)
    THEN LET segments == Split(input, {"."})
         IN  result.out = JoinDots([i \in 1..Len(segments) |->
                                      IF AllDigits(segments[i]) THEN <<"$">>
                                      ELSE segments[i]])
    ELSE result.out = nullS

\* sub occurs in s
Contains(s, sub) ==
  \E i \in 1..(Len(s) - Len(sub) + 1) : SubSeq(s, i, i + Len(sub) - 1) = sub

\* the fields of the $push, $addToSet and $pop groups of doc whose operand is a
\* plain object with an $each array and a $slice, as <<operator, field, $each>>
C8_EachFields(doc) ==
  {<<doc.f[i][1], doc.f[i][2].f[j][1], Lookup(doc.f[i][2].f[j][2].f, KeyEach)>> :
     <<i, j>> \in {ij \in (1..Len(doc.f)) \X (1..2) :
                     /\ doc.f[ij[1]][1] \in EachOps
                     /\ isBasicObject(doc.f[ij[1]][2])
                     /\ ij[2] <= Len(doc.f[ij[1]][2].f)
                     /\ LET operand == doc.f[ij[1]][2].f[ij[2]][2]
                        IN  /\ isBasicObject(operand)
                            /\ HasKey(operand.f, KeyEach)
                            /\ HasKey(operand.f, KeySlice)
                            /\ IsArray(Lookup(operand.f, KeyEach))}}

\* C8: for such a field, element i of $each is indexed at op[field][$each][i] with
\* the key field.i, the operator of that position is op, and $slice is in no
\* position and no key of the index.
C8_EachIndexed ==
  (last.op = "new" /\ C8_EachFields(last.pre.obj) # {}) =>
    /\ \A t \in C8_EachFields(last.pre.obj) :
         \A i \in 0..(Len(t[3].e) - 1) :
           LET position == Pos1(Pos1(Pos1(t[1], t[2]), KeyEach), NumStr(i))
           IN  /\ LookupS(affectedKeys, position) = t[2] \o <<".">> \o NumStr(i)
               /\ LookupS(genericAffectedKeys, position) = t[2] \o <<".", "$">>
               /\ InSeq(position, arrayItemPositions)
               /\ extractOp(position) = t[1]
    /\ \A i \in 1..Len(affectedKeys) :
         /\ ~Contains(affectedKeys[i][1], KeySlice)
         /\ ~Contains(affectedKeys[i][2], KeySlice)
         /\ ~Contains(genericAffectedKeys[i][1], KeySlice)
         /\ ~Contains(genericAffectedKeys[i][2], KeySlice)
    /\ \A positions \in {parentPositions, positionsInsideArrays, objectPositions,
                         arrayItemPositions} :
         \A i \in 1..Len(positions) : ~Contains(positions[i], KeySlice)

\* C8's case: $push of a with two $each elements and a $slice has been indexed
C8_Witness ==
  /\ last.op = "new"
  /\ last.pre.obj = P1(OpPush, P1(Ka, P2(KeyEach, Arr(<<Num1, Num2>>), KeySlice, Num3)))
  /\ Len(affectedKeys) = 3
  /\ LookupS(affectedKeys, Pos1(Pos1(Pos1(OpPush, Ka), KeyEach), <<"1">>))
       = <<"a", ".", "1">>

\* v holds no undefined: no property of an object and no element of an array of v,
\* at any depth, is undefined
RECURSIVE HoldsNoUndefined(_)
HoldsNoUndefined(v) ==
  IF v.k = "obj"
  THEN \A i \in 1..Len(v.f) : v.f[i][2] # undefined /\ HoldsNoUndefined(v.f[i][2])
  ELSE IF v.k = "arr"
  THEN \A i \in 1..Len(v.e) : v.e[i] # undefined /\ HoldsNoUndefined(v.e[i])
  ELSE TRUE

NoUndefinedProperty(v) ==
  isBasicObject(v) => \A i \in 1..Len(v.f) : v.f[i][2] # undefined

\* position is that of the operand of a field of $pull: $pull[field]
IsPullOperand(position) ==
  /\ extractOp(position) = OpPull
  /\ Cardinality({i \in 1..Len(position) : position[i] = "["}) = 1

IsPathKey(key) ==
  LET segments == Split(key, {"."})
  IN  /\ Len(segments[1]) > 0
      /\ Head(segments[1]) # "$"
      /\ \A i \in 1..Len(segments) : segments[i] \notin {KeyEach, KeySlice}
      /\ \A i \in 2..Len(segments) :
           ParseIntIsNaN(segments[i]) \/ IsArrayIndex(segments[i])

C13_BlackBoxIsOpaque ==
  \A i \in 1..Len(genericAffectedKeys) :
    LET position == genericAffectedKeys[i][1]
    IN  InSeq(genericAffectedKeys[i][2], blackboxKeys)
          => /\ HasKey(affectedKeys, position)
             /\ \A j \in 1..Len(affectedKeys) : ~IsBeneath(affectedKeys[j][1], position)

\* the positions C14 looks at: those of the index before and after the call, and
\* the positions a call names besides
C14_Positions ==
  {last.pre.idx.affectedKeys[i][1] : i \in 1..Len(last.pre.idx.affectedKeys)}
  \cup IndexedPositions \cup ExtraPositions

\* the call C14 is about: removeValueForPosition of an element of an array
C14_RemovedElement ==
  /\ last.op = "removeValueForPosition"
  /\ ~last.traverseObject
  /\ IsArrayElement(last.pre.obj, last.position)

\* C14 as stated: the array keeps its length, the removed position reads
\* undefined and every other position (the containers the element is in aside)
\* reads what it read before.
C14_RemoveKeepsAllOthers ==
  C14_RemovedElement =>
    LET parent == ParentPosition(last.position)
    IN  /\ Len(getValueForPosition(obj, parent, FALSE).e)
             = Len(getValueForPosition(last.pre.obj, parent, FALSE).e)
        /\ getValueForPosition(obj, last.position, FALSE) = undefined
        /\ \A q \in C14_Positions \ {last.position} :
             ~IsBeneath(last.position, q)
               => getValueForPosition(obj, q, FALSE)
                    = getValueForPosition(last.pre.obj, q, FALSE)

\* C14, amended: the array keeps its length, the removed position and every
\* position beneath it read undefined, every position that is neither beneath nor
\* above it reads what it read before, and a container the element is in is the
\* same kind of container with, for an array, the same length.
C14_RemoveKeepsOthers ==
  C14_RemovedElement =>
    LET parent == ParentPosition(last.position)
    IN  /\ Len(getValueForPosition(obj, parent, FALSE).e)
             = Len(getValueForPosition(last.pre.obj, parent, FALSE).e)
        /\ getValueForPosition(obj, last.position, FALSE) = undefined
        /\ \A q \in C14_Positions \ {last.position} :
             LET was == getValueForPosition(last.pre.obj, q, FALSE)
                 is == getValueForPosition(obj, q, FALSE)
             IN  IF IsBeneath(q, last.position) THEN is = undefined
                 ELSE IF IsBeneath(last.position, q)
                 THEN /\ is.k = was.k
                      /\ IsArray(was) => Len(is.e) = Len(was.e)
                 ELSE is = was

\* C14's case: the first of two elements of an array has been removed: the array
\* still has two elements, the property of the second reads as before and the
\* property of the first reads undefined
C14_Witness ==
  /\ C14_RemovedElement
  /\ last.position = Pos1(Ka, <<"0">>)
  /\ getValueForPosition(last.pre.obj, Pos1(Pos1(Ka, <<"0">>), Kb), FALSE) = Num1
  /\ getValueForPosition(obj, Pos1(Pos1(Ka, <<"0">>), Kb), FALSE) = undefined
  /\ getValueForPosition(obj, Pos1(Pos1(Ka, <<"1">>), Kb), FALSE) = Num3
  /\ Len(getValueForPosition(obj, Ka, FALSE).e) = 2

\* C15: a setValueForPosition that meets, before the last subkey, an existing
\* value that is neither a plain object nor an array does not throw and leaves the
\* document and the index as they were.
C15_AbortLeavesAll ==
  (/\ last.op = "setValueForPosition"
   /\ last.value # undefined
   /\ MeetsNonContainer(last.pre.obj, last.position, last.traverseObject))
    => (~last.threw /\ This = last.pre)

\* C15's case: a set of a[MaxIndex] where a is a number has been made
C15_Witness ==
  /\ last.op = "setValueForPosition"
  /\ last.position = Pos1(Ka, NumStr(MaxIndex))
  /\ last.value = Num3
  /\ getValueForPosition(last.pre.obj, Ka, FALSE) = Num1
  /\ getValueForPosition(obj, Ka, FALSE) = Num1

\* C16: after removeKey(k) of a key that was indexed, affectsKey(k) is false.
C16_RemoveKeyClears ==
  (/\ last.op = "removeKey"
   /\ \E i \in 1..Len(last.pre.idx.affectedKeys) :
        last.pre.idx.affectedKeys[i][2] = last.key)
    => ~affectsKey(Idx, last.key)

====
